---- MODULE Spec2Model ----
(***************************************************************************)
(* Stencil: a project scaffolding generator.                               *)
(*                                                                         *)
(* Text (file content, paths, variable names and values) is modelled as a  *)
(* sequence of one-character strings, so that literal replacement, regular *)
(* expression extraction, truncation and the zero-byte scan work on        *)
(* positions exactly as the Go code does on bytes.                         *)
(***************************************************************************)
EXTENDS Integers, Sequences, FiniteSets, TLC

(***************************************************************************)
(* Bounds of the model                                                     *)
(***************************************************************************)
\* number of tokens an input buffer of the substitution engine is built from
MaxTokens == 3

(***************************************************************************)
(* Characters                                                              *)
(***************************************************************************)
NUL == "NUL"
\* the characters that occur in some placeholder delimiter
DelimChars == {"{", "}", "<", ">", "_", "%"}
\* [A-Za-z0-9_] of the extraction patterns, over the model's alphabet
Letters == {"a", "b", "c", "d", "o", "t", "x"}
WordChars == Letters \cup {"_"}
\* every byte of the model's alphabet
Chars == Letters \cup DelimChars \cup {"/", ".", "-", NUL}

Max(S) == CHOOSE m \in S : \A n \in S : n <= m
Min(S) == CHOOSE m \in S : \A n \in S : m <= n

\* s[i..] starts with p
HasPrefixAt(s, p, i) ==
    /\ i + Len(p) - 1 <= Len(s)
    /\ \A j \in 1..Len(p) : s[i + j - 1] = p[j]

\* p occurs somewhere in s
Contains(s, p) == \E i \in 1..(Len(s) + 1) : HasPrefixAt(s, p, i)

(***************************************************************************)
(* bytes.ReplaceAll / strings.ReplaceAll for a non-empty pattern: from     *)
(* position i on, the text up to the next occurrence, the replacement, and *)
(* the same again after the occurrence.                                    *)
(***************************************************************************)
\* strings.Replace(s, old, new, 1): the first occurrence only
ReplaceFrom_OnlyFirst(s, old, new, i) ==
    LET occ == {j \in i..Len(s) : HasPrefixAt(s, old, j)}
    IN  IF occ = {} THEN SubSeq(s, i, Len(s))
        ELSE SubSeq(s, i, Min(occ) - 1) \o new \o SubSeq(s, Min(occ) + Len(old), Len(s))

\* the scan resumes one character too far after an occurrence
RECURSIVE ReplaceFrom_OffByOne(_, _, _, _)
ReplaceFrom_OffByOne(s, old, new, i) ==
    LET occ == {j \in i..Len(s) : HasPrefixAt(s, old, j)}
    IN  IF occ = {} THEN SubSeq(s, i, Len(s))
        ELSE SubSeq(s, i, Min(occ) - 1) \o new
                 \o ReplaceFrom_OffByOne(s, old, new, Min(occ) + Len(old) + 1)

RECURSIVE ReplaceFrom(_, _, _, _)
ReplaceFrom(s, old, new, i) ==
    LET occ == {j \in i..Len(s) : HasPrefixAt(s, old, j)}
    IN  IF occ = {} THEN SubSeq(s, i, Len(s))
        ELSE SubSeq(s, i, Min(occ) - 1) \o new \o ReplaceFrom(s, old, new, Min(occ) + Len(old))

ReplaceAll(s, old, new) == ReplaceFrom(s, old, new, 1)

(***************************************************************************)
(* The four placeholder formats                                            *)
(***************************************************************************)
FormatNames == {"braces", "angle", "underscores", "percent"}

Open(f) ==
    CASE f = "braces"      -> <<"{", "{">>
      [] f = "angle"       -> <<"<", "<">>
      [] f = "underscores" -> <<"_", "_">>
      [] f = "percent"     -> <<"%">>

Close(f) ==
    CASE f = "braces"      -> <<"}", "}">>
      [] f = "angle"       -> <<">", ">">>
      [] f = "underscores" -> <<"_", "_">>
      [] f = "percent"     -> <<"%">>

\* "{{" + key + "}}" and its three siblings
Wrap(f, key) == Open(f) \o key \o Close(f)

\* config.FormatOptions
FormatEnabled(fo, f) ==
    CASE f = "braces"      -> fo.EnableBraces
      [] f = "angle"       -> fo.EnableAngleBrackets
      [] f = "underscores" -> fo.EnableUnderscores
      [] f = "percent"     -> fo.EnablePercent

(***************************************************************************)
(* Replacer                                                                *)
(***************************************************************************)
\* the name is replaced where it stands without delimiters too
ReplaceKey_Bare(result, key, value) ==
    LET r1 == ReplaceAll(result, Wrap("braces", key), value)
        r2 == ReplaceAll(r1, Wrap("angle", key), value)
        r3 == ReplaceAll(r2, Wrap("underscores", key), value)
        r4 == ReplaceAll(r3, Wrap("percent", key), value)
    IN  IF key = <<>> THEN r4 ELSE ReplaceAll(r4, key, value)

\* a variable with the empty string as value is treated as absent
ReplaceKey_SkipEmpty(result, key, value) ==
    LET r1 == ReplaceAll(result, Wrap("braces", key), value)
        r2 == ReplaceAll(r1, Wrap("angle", key), value)
        r3 == ReplaceAll(r2, Wrap("underscores", key), value)
    IN  IF value = <<>> THEN result ELSE ReplaceAll(r3, Wrap("percent", key), value)

\* the body of the loop over r.variables: the four replacements for one key
ReplaceKey(result, key, value) ==
    LET r1 == ReplaceAll(result, Wrap("braces", key), value)
        r2 == ReplaceAll(r1, Wrap("angle", key), value)
        r3 == ReplaceAll(r2, Wrap("underscores", key), value)
    IN  ReplaceAll(r3, Wrap("percent", key), value)

\* `for key, value := range r.variables`, the keys visited in the order `order`
RECURSIVE ReplaceLoop(_, _, _)
ReplaceLoop(result, vs, order) ==
    IF order = <<>> THEN result
    ELSE ReplaceLoop(ReplaceKey(result, Head(order), vs[Head(order)]), vs, Tail(order))

\* the orders in which Go may range over a map with these keys
KeyOrders(vs) ==
    LET n == Cardinality(DOMAIN vs)
    IN  {o \in [1..n -> DOMAIN vs] : \A i, j \in 1..n : i # j => o[i] # o[j]}

ReplaceInContent(content, vs, order) == ReplaceLoop(content, vs, order)

ReplaceInPath(path, vs, order) == ReplaceLoop(path, vs, order)

(***************************************************************************)
(* Extraction: regexp FindAll of  open (class+) close                      *)
(***************************************************************************)
\* number of consecutive characters of class starting at position j
RunLen(s, j, class) ==
    LET stop == {k \in j..Len(s) : s[k] \notin class}
    IN  IF stop = {} THEN Len(s) - j + 1 ELSE Min(stop) - j

\* the delimiters of any format open and close a match of format f
MatchLen_AnyDelimiter(s, i, f, class) ==
    LET opens == {g \in FormatNames : HasPrefixAt(s, Open(g), i)}
    IN  IF opens = {} THEN 0
        ELSE LET j == i + Len(Open(f))
                 cand == {k \in 1..RunLen(s, j, Chars \ {"}", ">", "%"}) :
                             \E g \in FormatNames : HasPrefixAt(s, Close(g), j + k)}
             IN  IF cand = {} THEN 0 ELSE Max(cand)

\* length of the name matched at position i (0: no match): the class+ is
\* greedy and gives characters back until the closing delimiter follows
MatchLen(s, i, f, class) ==
    IF ~HasPrefixAt(s, Open(f), i) THEN 0
    ELSE LET j == i + Len(Open(f))
             cand == {k \in 1..RunLen(s, j, class) : HasPrefixAt(s, Close(f), j + k)}
         IN  IF cand = {} THEN 0 ELSE Max(cand)

\* the names of all successive non-overlapping matches from position i on
RECURSIVE FindAllFrom(_, _, _, _)
FindAllFrom(s, i, f, class) ==
    LET hits == {j \in i..Len(s) : MatchLen(s, j, f, class) > 0}
    IN  IF hits = {} THEN {}
        ELSE LET j == Min(hits)
                 k == MatchLen(s, j, f, class)
             IN  {SubSeq(s, j + Len(Open(f)), j + Len(Open(f)) + k - 1)}
                     \cup FindAllFrom(s, j + Len(Open(f)) + k + Len(Close(f)), f, class)

\* the character class of each pattern: [^}]  [^>]  [A-Za-z0-9_]  [A-Za-z0-9_]
NameClass(f) ==
    CASE f = "braces"      -> Chars \ {"}"}
      [] f = "angle"       -> Chars \ {">"}
      [] f = "underscores" -> WordChars
      [] f = "percent"     -> WordChars

FindAll(s, f) == FindAllFrom(s, 1, f, NameClass(f))

\* the spans <<first, last>> of the same matches
RECURSIVE FindAllIndexFrom(_, _, _, _)
FindAllIndexFrom(s, i, f, class) ==
    LET hits == {j \in i..Len(s) : MatchLen(s, j, f, class) > 0}
    IN  IF hits = {} THEN {}
        ELSE LET j == Min(hits)
                 e == j + Len(Open(f)) + MatchLen(s, j, f, class) + Len(Close(f))
             IN  {<<j, e - 1>>} \cup FindAllIndexFrom(s, e, f, class)

FindAllIndex(s, f) == FindAllIndexFrom(s, 1, f, NameClass(f))

ExtractVariablesFromFile(content) ==
    FindAll(content, "braces") \cup FindAll(content, "angle")
        \cup FindAll(content, "underscores") \cup FindAll(content, "percent")

ExtractVariablesFromPath(path) ==
    FindAll(path, "braces") \cup FindAll(path, "angle")
        \cup FindAll(path, "underscores") \cup FindAll(path, "percent")

(***************************************************************************)
(* Paths: path/filepath on slash-separated paths relative to the working   *)
(* directory                                                               *)
(***************************************************************************)
Slash == <<"/">>
Dot == <<".">>

\* position of the last "/" of p, 0 if there is none
LastSlash(p) ==
    LET S == {i \in 1..Len(p) : p[i] = "/"} IN IF S = {} THEN 0 ELSE Max(S)

\* strings.Split(p, "/")
RECURSIVE SplitPath(_)
SplitPath(p) ==
    LET S == {i \in 1..Len(p) : p[i] = "/"}
    IN  IF S = {} THEN <<p>>
        ELSE <<SubSeq(p, 1, Min(S) - 1)>> \o SplitPath(SubSeq(p, Min(S) + 1, Len(p)))

\* filepath.Clean on the elements: "" and "." dropped, ".." removes the
\* element before it, or stays when there is none to remove
RECURSIVE CleanSegs(_, _)
CleanSegs(segs, acc) ==
    IF segs = <<>> THEN acc
    ELSE LET e == Head(segs)
         IN  IF e = <<>> \/ e = Dot THEN CleanSegs(Tail(segs), acc)
             ELSE IF e = <<".", ".">> /\ acc # <<>> /\ acc[Len(acc)] # <<".", ".">>
                  THEN CleanSegs(Tail(segs), SubSeq(acc, 1, Len(acc) - 1))
                  ELSE CleanSegs(Tail(segs), Append(acc, e))

RECURSIVE JoinSegs(_)
JoinSegs(segs) ==
    IF segs = <<>> THEN <<>>
    ELSE IF Len(segs) = 1 THEN segs[1]
    ELSE segs[1] \o Slash \o JoinSegs(Tail(segs))

Clean(p) ==
    LET segs == CleanSegs(SplitPath(p), <<>>) IN IF segs = <<>> THEN Dot ELSE JoinSegs(segs)

\* filepath.Join(a, b) for a non-empty a
Join(a, b) == IF b = <<>> THEN Clean(a) ELSE Clean(a \o Slash \o b)

\* filepath.Dir
Dir(p) == IF LastSlash(p) = 0 THEN Dot ELSE Clean(SubSeq(p, 1, LastSlash(p)))

\* filepath.Base of a clean path
Base(p) == SubSeq(p, LastSlash(p) + 1, Len(p))

\* filepath.Rel(base, p) for p = base or p below base
Rel(base, p) == IF p = base THEN Dot ELSE SubSeq(p, Len(base) + 2, Len(p))

\* byte order of the model's characters
CharRank(c) ==
    CASE c = NUL -> 0   [] c = "%" -> 37  [] c = "-" -> 45  [] c = "." -> 46
      [] c = "/" -> 47  [] c = "<" -> 60  [] c = ">" -> 62  [] c = "_" -> 95
      [] c = "a" -> 97  [] c = "b" -> 98  [] c = "c" -> 99  [] c = "d" -> 100
      [] c = "o" -> 111 [] c = "t" -> 116 [] c = "x" -> 120 [] c = "{" -> 123
      [] c = "}" -> 125

\* s sorts before t
RECURSIVE Less(_, _)
Less(s, t) ==
    IF t = <<>> THEN FALSE
    ELSE IF s = <<>> THEN TRUE
    ELSE IF s[1] # t[1] THEN CharRank(s[1]) < CharRank(t[1])
    ELSE Less(Tail(s), Tail(t))

RECURSIVE SortPaths(_)
SortPaths(S) ==
    IF S = {} THEN <<>>
    ELSE LET m == CHOOSE a \in S : \A b \in S \ {a} : Less(Base(a), Base(b))
         IN  <<m>> \o SortPaths(S \ {m})

(***************************************************************************)
(* The filesystem: a function from clean paths to nodes                    *)
(*   [kind: "dir" | "file", mode: set of permission bits, data: bytes]     *)
(* seen by a process that owns the files and is not root                   *)
(***************************************************************************)
M755 == {"ur", "uw", "ux", "gr", "gx", "or", "ox"}
M644 == {"ur", "uw", "gr", "or"}
M444 == {"ur", "gr", "or"}
\* write-only: the owner cannot read the file
M200 == {"uw"}
\* the process's file mode creation mask, 022
Umask == {"gw", "ow"}

DirNode(mode) == [kind |-> "dir", mode |-> mode, data |-> <<>>]
FileNode(mode, data) == [kind |-> "file", mode |-> mode, data |-> data]

IsDir(f, p) == p \in DOMAIN f /\ f[p].kind = "dir"

\* entries can be created in directory d
DirWritable(f, d) == IsDir(f, d) /\ {"uw", "ux"} \subseteq f[d].mode

\* the entries under directory d of disk f
EntriesUnder(f, d) ==
    {p \in DOMAIN f : Len(p) > Len(d) + 1 /\ SubSeq(p, 1, Len(d) + 1) = d \o Slash}

\* readDirNames: the entries of directory d, sorted by name
ReadDirNames(f, d) == SortPaths({p \in DOMAIN f : p # d /\ p # Dot /\ Dir(p) = d})

\* os.MkdirAll(p, perm): [fs, ok]
RECURSIVE MkdirAll(_, _, _)
MkdirAll(f, p, perm) ==
    IF p \in DOMAIN f THEN [fs |-> f, ok |-> f[p].kind = "dir"]
    ELSE LET r == IF LastSlash(p) > 1
                  THEN MkdirAll(f, SubSeq(p, 1, LastSlash(p) - 1), perm)
                  ELSE [fs |-> f, ok |-> TRUE]
         IN  IF ~r.ok THEN r
             ELSE IF DirWritable(r.fs, Dir(p))
                  THEN [fs |-> (p :> DirNode(perm \ Umask)) @@ r.fs, ok |-> TRUE]
                  ELSE [fs |-> r.fs, ok |-> FALSE]

\* os.OpenFile(p, O_WRONLY|O_CREATE|O_TRUNC, perm): [fs, ok]
OpenFile(f, p, perm) ==
    IF p \in DOMAIN f
    THEN IF f[p].kind = "file" /\ "uw" \in f[p].mode
         THEN [fs |-> [f EXCEPT ![p].data = <<>>], ok |-> TRUE]
         ELSE [fs |-> f, ok |-> FALSE]
    ELSE IF DirWritable(f, Dir(p))
         THEN [fs |-> (p :> FileNode(perm \ Umask, <<>>)) @@ f, ok |-> TRUE]
         ELSE [fs |-> f, ok |-> FALSE]

\* every path is reported to exist
Stat_Always(f, p) == TRUE

\* os.Stat(p) does not answer "does not exist"
Stat(f, p) == p \in DOMAIN f

\* os.Open(p) succeeds
CanOpen(f, p) == p \in DOMAIN f /\ "ur" \in f[p].mode

(***************************************************************************)
(* IsBinaryFile                                                            *)
(***************************************************************************)
SniffLen == 512

\* `for _, b := range buffer { if b == 0 { return true } }`
HasZeroByte(buffer) == \E i \in 1..Len(buffer) : buffer[i] = NUL

\* file.Read(buffer): up to len(buffer) bytes; no byte at all is io.EOF
ReadLen(data, n) == IF Len(data) < n THEN Len(data) ELSE n

\* the whole file is scanned, not its first 512 bytes
IsBinaryFile_WholeFile(f, filePath) ==
    IF ~CanOpen(f, filePath) THEN FALSE
    ELSE IF f[filePath].kind = "dir" \/ Len(f[filePath].data) = 0 THEN FALSE
    ELSE HasZeroByte(f[filePath].data)

\* a file that cannot be opened is reported binary
IsBinaryFile_FailClosed(f, filePath) ==
    IF ~CanOpen(f, filePath) THEN TRUE
    ELSE IF f[filePath].kind = "dir" \/ ReadLen(f[filePath].data, SniffLen) = 0 THEN FALSE
    ELSE HasZeroByte(SubSeq(f[filePath].data, 1, ReadLen(f[filePath].data, SniffLen)))

IsBinaryFile(f, filePath) ==
    IF ~CanOpen(f, filePath) THEN FALSE
    ELSE IF f[filePath].kind = "dir" \/ ReadLen(f[filePath].data, SniffLen) = 0 THEN FALSE
    ELSE HasZeroByte(SubSeq(f[filePath].data, 1, ReadLen(f[filePath].data, SniffLen)))

\* truncateString
truncateString(s, maxLen) ==
    IF Len(s) <= maxLen THEN s ELSE SubSeq(s, 1, maxLen) \o <<".", ".", ".">>

PreviewLen == 200

(***************************************************************************)
(* config.Config and the program state                                     *)
(***************************************************************************)
VARIABLES
    cfg,        \* *config.Config held by the Generator
    replacer,   \* *replacer.Replacer: [variables]
    input,      \* the buffer or path handed to the substitution engine
    output,     \* what ReplaceInContent / ReplaceInPath returned
    extracted,  \* what ExtractVariablesFromFile / FromPath returned
    op,         \* the engine function that was called, "none" before the call
    fs,         \* the filesystem
    pc,         \* "idle", "walk" (inside filepath.Walk) or "done" (Generate returned)
    walk,       \* filepath.Walk: per open directory, the entries still to visit
    stdout,     \* the [DRY RUN] lines printed by the current run
    log,        \* the directories and files the current run created or wrote
    result,     \* what Generate returned: "none" (running), "ok", "error"
    fs0,        \* the filesystem when the current run started
    prevRun,    \* the previous run: [DryRun, stdout, log, result]
    nruns,      \* number of runs started
    again,      \* what substituting the substituted buffer once more returned
    binary,     \* what IsBinaryFile returned: "none" before the call
    stdin,      \* the lines still to be read from standard input
    asked,      \* the prompts issued, in order, each with the line read for it
    found,      \* what ExtractVariables returned: [ok, vs]
    values,     \* what PromptForValues returned: [ok, vs]
    confirmed,  \* what PromptForConfirmation returned: "none", "yes", "no", "error"
    flags,      \* the command line: the flag variables after flag.Parse
    disk        \* the config files of the working directory, by name

engineVars == <<input, output, extracted, op>>
genVars == <<fs, pc, walk, stdout, log, result, fs0, prevRun, nruns>>
promptVars == <<stdin, asked, found, values, confirmed>>
cliVars == <<flags, disk>>
sideVars == <<again, binary, promptVars, cliVars>>
vars == <<cfg, replacer, input, output, extracted, op,
          fs, pc, walk, stdout, log, result, fs0, prevRun, nruns,
          again, binary, stdin, asked, found, values, confirmed, flags, disk>>

AllFormats ==
    [EnableBraces |-> TRUE, EnableAngleBrackets |-> TRUE,
     EnableUnderscores |-> TRUE, EnablePercent |-> TRUE]

TemplateRoot == <<"t">>

DefaultConfig ==
    [TemplateDir |-> TemplateRoot, OutputDir |-> <<"o">>,
     Variables |-> <<>>, Interactive |-> FALSE, DryRun |-> FALSE,
     SkipConfirm |-> FALSE, Formats |-> AllFormats]

\* NewReplacer(variables): the Replacer keeps the variables and nothing else
NewReplacer(variables) == [variables |-> variables]

\* the working directory alone
EmptyDisk == Dot :> DirNode(M755)

NoRun == [DryRun |-> FALSE, stdout |-> <<>>, log |-> <<>>, result |-> "none"]

\* a Variable Set not returned yet, or nil with an error
NoVariables == [ok |-> FALSE, vs |-> <<>>]

\* the flag variables when no flag is given (the defaults of init) and a
\* working directory without a config file
NoFlags ==
    [given |-> {},
     templateDir |-> DefaultConfig.TemplateDir, outputDir |-> DefaultConfig.OutputDir,
     configFile |-> "", variables |-> <<>>,
     interactiveMode |-> FALSE, dryRun |-> FALSE, skipConfirm |-> FALSE]
NoFiles == <<>>

\* nothing called, nothing typed, nothing on the command line
SideIdle ==
    /\ again = <<>>
    /\ binary = "none"
    /\ stdin = <<>>
    /\ asked = <<>>
    /\ found = NoVariables
    /\ values = NoVariables
    /\ confirmed = "none"
    /\ flags = NoFlags
    /\ disk = NoFiles

(***************************************************************************)
(* Inputs of the substitution engine                                       *)
(***************************************************************************)
KeyNames == {<<"a">>, <<"b">>}
KeyValues == {<<>>, <<"b">>, <<"%", "b", "%">>}

VarSets ==
    UNION {[K -> KeyValues] : K \in SUBSET KeyNames}

FormatSelections ==
    {AllFormats,
     [AllFormats EXCEPT !.EnablePercent = FALSE],
     [EnableBraces |-> TRUE, EnableAngleBrackets |-> FALSE,
      EnableUnderscores |-> FALSE, EnablePercent |-> FALSE]}

\* the pieces an input is concatenated from: placeholders, text, stray delimiters
Tokens ==
    {Wrap("braces", <<"a">>), Wrap("braces", <<"b">>),
     Wrap("percent", <<"a">>), Wrap("percent", <<"b">>),
     Wrap("angle", <<"a">>), Wrap("underscores", <<"a">>),
     <<"b">>, <<"/">>, <<"%">>}

RECURSIVE Concat(_)
Concat(ts) == IF ts = <<>> THEN <<>> ELSE Head(ts) \o Concat(Tail(ts))

TokenBuffers == {Concat(ts) : ts \in UNION {[1..n -> Tokens] : n \in 0..MaxTokens}}

\* the extraction scenario: {{a}}, <<b>>, __c__, %d%
ScenarioBuffer ==
    Wrap("braces", <<"a">>) \o <<"/">> \o Wrap("angle", <<"b">>) \o <<"/">>
        \o Wrap("underscores", <<"c">>) \o <<"/">> \o Wrap("percent", <<"d">>)

EngineInputs == TokenBuffers \cup {ScenarioBuffer}

InitEngine ==
    /\ \E vs \in VarSets, fo \in FormatSelections :
          /\ cfg = [DefaultConfig EXCEPT !.Variables = vs, !.Formats = fo]
          /\ replacer = NewReplacer(vs)
    /\ input \in EngineInputs
    /\ output = <<>>
    /\ extracted = {}
    /\ op = "none"
    /\ fs = EmptyDisk
    /\ pc = "idle"
    /\ walk = <<>>
    /\ stdout = <<>>
    /\ log = <<>>
    /\ result = "none"
    /\ fs0 = EmptyDisk
    /\ prevRun = NoRun
    /\ nruns = 0
    /\ SideIdle

CallReplaceInContent ==
    /\ op = "none"
    /\ \E order \in KeyOrders(replacer.variables) :
          output' = ReplaceInContent(input, replacer.variables, order)
    /\ op' = "ReplaceInContent"
    /\ UNCHANGED <<cfg, replacer, input, extracted>>
    /\ UNCHANGED genVars
    /\ UNCHANGED sideVars

CallReplaceInPath ==
    /\ op = "none"
    /\ \E order \in KeyOrders(replacer.variables) :
          output' = ReplaceInPath(input, replacer.variables, order)
    /\ op' = "ReplaceInPath"
    /\ UNCHANGED <<cfg, replacer, input, extracted>>
    /\ UNCHANGED genVars
    /\ UNCHANGED sideVars

CallExtractVariablesFromFile ==
    /\ op = "none"
    /\ extracted' = ExtractVariablesFromFile(input)
    /\ op' = "ExtractVariablesFromFile"
    /\ UNCHANGED <<cfg, replacer, input, output>>
    /\ UNCHANGED genVars
    /\ UNCHANGED sideVars

CallExtractVariablesFromPath ==
    /\ op = "none"
    /\ extracted' = ExtractVariablesFromPath(input)
    /\ op' = "ExtractVariablesFromPath"
    /\ UNCHANGED <<cfg, replacer, input, output>>
    /\ UNCHANGED genVars
    /\ UNCHANGED sideVars

\* ReplaceInContent called on what ReplaceInContent returned
CallReplaceInContentAgain ==
    /\ op = "ReplaceInContent"
    /\ \E order \in KeyOrders(replacer.variables) :
          again' = ReplaceInContent(output, replacer.variables, order)
    /\ op' = "ReplaceInContentTwice"
    /\ UNCHANGED <<cfg, replacer, input, output, extracted>>
    /\ UNCHANGED genVars
    /\ UNCHANGED <<binary, promptVars, cliVars>>

NextEngine ==
    \/ CallReplaceInContentAgain
    \/ CallReplaceInContent
    \/ CallReplaceInPath
    \/ CallExtractVariablesFromFile
    \/ CallExtractVariablesFromPath

SpecEngine == InitEngine /\ [][NextEngine]_vars

\* extraction alone, on inputs in which delimiters also stand by themselves,
\* so that a placeholder can lie inside another
PatternTokens == Tokens \cup {Open("braces"), Close("braces"), Open("angle"), Close("angle")}

PatternInputs == {Concat(ts) : ts \in UNION {[1..n -> PatternTokens] : n \in 0..MaxTokens}}

InitPatterns ==
    /\ cfg = DefaultConfig
    /\ replacer = NewReplacer(<<>>)
    /\ input \in PatternInputs
    /\ output = <<>>
    /\ extracted = {}
    /\ op = "none"
    /\ fs = EmptyDisk
    /\ pc = "idle"
    /\ walk = <<>>
    /\ stdout = <<>>
    /\ log = <<>>
    /\ result = "none"
    /\ fs0 = EmptyDisk
    /\ prevRun = NoRun
    /\ nruns = 0
    /\ SideIdle

NextPatterns ==
    \/ CallExtractVariablesFromFile
    \/ CallExtractVariablesFromPath

SpecPatterns == InitPatterns /\ [][NextPatterns]_vars

(***************************************************************************)
(* Generator                                                               *)
(***************************************************************************)
\* number of entries of the template tree
MaxEntries == 2
\* number of times the program is run on the same disk
MaxRuns == 2

\* what a step of the run did to the disk and printed:
\* fs, the lines printed, the entries created or written, and success
Step(f, out, wr, ok) == [fs |-> f, out |-> out, log |-> wr, ok |-> ok]

\* one line of output or one entry created: the kind "dir", "binary" or
\* "file", the template entry, the destination, and what was shown or written
Entry(kind, src, dst, info, text) ==
    [kind |-> kind, src |-> src, dst |-> dst,
     srcMode |-> info.mode, srcData |-> info.data, text |-> text]

\* the copy goes through the substitution
copyFile_Substituted(f, source, destination) ==
    IF ~CanOpen(f, source) THEN [fs |-> f, ok |-> FALSE]
    ELSE LET o == OpenFile(f, destination, M644)
             order == CHOOSE q \in KeyOrders(replacer.variables) : TRUE
         IN  IF ~o.ok THEN o
             ELSE [fs |-> [o.fs EXCEPT ![destination].data =
                              ReplaceInContent(o.fs[source].data, replacer.variables, order)],
                   ok |-> TRUE]

\* copyFile(source, destination)
copyFile(f, source, destination) ==
    IF ~CanOpen(f, source) THEN [fs |-> f, ok |-> FALSE]
    ELSE LET o == OpenFile(f, destination, M644)
         IN  IF ~o.ok THEN o
             ELSE [fs |-> [o.fs EXCEPT ![destination].data = o.fs[source].data], ok |-> TRUE]

\* processFile(sourcePath, targetPath, info); order is the order in which
\* ReplaceInContent ranges over the variables
processFile(f, sourcePath, targetPath, info, order) ==
    IF ~CanOpen(f, sourcePath) THEN Step(f, <<>>, <<>>, FALSE)
    ELSE IF IsBinaryFile(f, sourcePath)
    THEN IF cfg.DryRun
         THEN Step(f, <<Entry("binary", sourcePath, targetPath, info, <<>>)>>, <<>>, TRUE)
         ELSE LET m == MkdirAll(f, Dir(targetPath), M755)
              IN  IF ~m.ok THEN Step(m.fs, <<>>, <<>>, FALSE)
                  ELSE LET c == copyFile(m.fs, sourcePath, targetPath)
                       IN  IF ~c.ok THEN Step(c.fs, <<>>, <<>>, FALSE)
                           ELSE Step(c.fs, <<>>,
                                     <<Entry("binary", sourcePath, targetPath, info,
                                             c.fs[targetPath].data)>>, TRUE)
    ELSE LET content == f[sourcePath].data
             newContent == ReplaceInContent(content, replacer.variables, order)
         IN  IF cfg.DryRun
             THEN Step(f, <<Entry("file", sourcePath, targetPath, info,
                                  truncateString(newContent, PreviewLen))>>, <<>>, TRUE)
             ELSE LET m == MkdirAll(f, Dir(targetPath), M755)
                  IN  IF ~m.ok THEN Step(m.fs, <<>>, <<>>, FALSE)
                      ELSE LET o == OpenFile(m.fs, targetPath, info.mode)
                           IN  IF ~o.ok THEN Step(o.fs, <<>>, <<>>, FALSE)
                               ELSE Step([o.fs EXCEPT ![targetPath].data = newContent], <<>>,
                                         <<Entry("file", sourcePath, targetPath, info,
                                                 newContent)>>, TRUE)

\* the destination is the relative path as it stands in the template
walkFn_NoPath(f, path, info, pathOrder, contentOrder) ==
    LET relPath == Rel(cfg.TemplateDir, path)
        targetPath == Join(cfg.OutputDir, relPath)
    IN  IF relPath = Dot THEN Step(f, <<>>, <<>>, TRUE)
        ELSE IF info.kind = "dir"
        THEN IF cfg.DryRun
             THEN Step(f, <<Entry("dir", path, targetPath, info, <<>>)>>, <<>>, TRUE)
             ELSE LET m == MkdirAll(f, targetPath, info.mode)
                  IN  IF ~m.ok THEN Step(m.fs, <<>>, <<>>, FALSE)
                      ELSE Step(m.fs, <<>>, <<Entry("dir", path, targetPath, info, <<>>)>>, TRUE)
        ELSE processFile(f, path, targetPath, info, contentOrder)

\* the function Generate hands to filepath.Walk, called on path with its
\* FileInfo; pathOrder and contentOrder are the orders in which ReplaceInPath
\* and ReplaceInContent range over the variables
walkFn(f, path, info, pathOrder, contentOrder) ==
    LET relPath == Rel(cfg.TemplateDir, path)
        targetPath == Join(cfg.OutputDir, ReplaceInPath(relPath, replacer.variables, pathOrder))
    IN  IF relPath = Dot THEN Step(f, <<>>, <<>>, TRUE)
        ELSE IF info.kind = "dir"
        THEN IF cfg.DryRun
             THEN Step(f, <<Entry("dir", path, targetPath, info, <<>>)>>, <<>>, TRUE)
             ELSE LET m == MkdirAll(f, targetPath, info.mode)
                  IN  IF ~m.ok THEN Step(m.fs, <<>>, <<>>, FALSE)
                      ELSE Step(m.fs, <<>>, <<Entry("dir", path, targetPath, info, <<>>)>>, TRUE)
        ELSE processFile(f, path, targetPath, info, contentOrder)

\* the frames of the walk that still hold an entry
RECURSIVE DropEmpty(_)
DropEmpty(frames) ==
    IF frames = <<>> THEN <<>>
    ELSE IF Head(frames) = <<>> THEN DropEmpty(Tail(frames))
    ELSE <<Head(frames)>> \o DropEmpty(Tail(frames))

ThisRun == [DryRun |-> cfg.DryRun, stdout |-> stdout, log |-> log, result |-> result]

\* Generate up to the call of filepath.Walk: the check of the template
\* directory and the creation of the output directory
Generate(dryRun) ==
    /\ pc \in {"idle", "done", "ready"}
    /\ nruns < MaxRuns
    /\ nruns' = nruns + 1
    /\ prevRun' = IF pc = "done" THEN ThisRun ELSE NoRun
    /\ cfg' = [cfg EXCEPT !.DryRun = dryRun]
    /\ fs0' = fs
    /\ stdout' = <<>>
    /\ log' = <<>>
    /\ IF ~Stat(fs, cfg.TemplateDir)
       THEN /\ result' = "error"
            /\ pc' = "done"
            /\ UNCHANGED <<fs, walk>>
       ELSE LET m == MkdirAll(fs, cfg.OutputDir, M755)
            IN  /\ fs' = m.fs
                /\ IF m.ok
                   THEN /\ walk' = <<<<cfg.TemplateDir>>>>
                        /\ pc' = "walk"
                        /\ result' = "none"
                   ELSE /\ walk' = <<>>
                        /\ pc' = "done"
                        /\ result' = "error"
    /\ UNCHANGED replacer
    /\ UNCHANGED engineVars
    /\ UNCHANGED sideVars

\* the walk goes on after an error
WalkStep_Continue ==
    /\ pc = "walk"
    /\ LET path == Head(Head(walk))
           info == fs[path]
           readable == path \in DOMAIN fs /\ (info.kind # "dir" \/ "ur" \in info.mode)
           names == IF readable /\ info.kind = "dir" THEN ReadDirNames(fs, path) ELSE <<>>
       IN  \E pathOrder \in KeyOrders(replacer.variables),
              contentOrder \in KeyOrders(replacer.variables) :
              LET r == IF readable THEN walkFn(fs, path, info, pathOrder, contentOrder)
                       ELSE Step(fs, <<>>, <<>>, FALSE)
                  rest == DropEmpty(<<names, Tail(Head(walk))>> \o Tail(walk))
              IN  /\ fs' = r.fs
                  /\ stdout' = stdout \o r.out
                  /\ log' = log \o r.log
                  /\ result' = IF r.ok /\ result # "error"
                                THEN (IF rest = <<>> THEN "ok" ELSE "none") ELSE "error"
                  /\ IF rest = <<>>
                     THEN walk' = <<>> /\ pc' = "done"
                     ELSE walk' = rest /\ pc' = "walk"
    /\ UNCHANGED <<cfg, replacer, fs0, prevRun, nruns>>
    /\ UNCHANGED engineVars
    /\ UNCHANGED sideVars

\* filepath.Walk visits the next entry: lstat, the names of a directory read
\* before the function is called on it, the function, then the descent; the
\* walk and Generate return on the first error and after the last entry
WalkStep ==
    /\ pc = "walk"
    /\ LET path == Head(Head(walk))
           info == fs[path]
           readable == path \in DOMAIN fs /\ (info.kind # "dir" \/ "ur" \in info.mode)
           names == IF readable /\ info.kind = "dir" THEN ReadDirNames(fs, path) ELSE <<>>
       IN  \E pathOrder \in KeyOrders(replacer.variables),
              contentOrder \in KeyOrders(replacer.variables) :
              LET r == IF readable THEN walkFn(fs, path, info, pathOrder, contentOrder)
                       ELSE Step(fs, <<>>, <<>>, FALSE)
                  rest == DropEmpty(<<names, Tail(Head(walk))>> \o Tail(walk))
              IN  /\ fs' = r.fs
                  /\ stdout' = stdout \o r.out
                  /\ log' = log \o r.log
                  /\ IF ~r.ok
                     THEN walk' = <<>> /\ pc' = "done" /\ result' = "error"
                     ELSE IF rest = <<>>
                     THEN walk' = <<>> /\ pc' = "done" /\ result' = "ok"
                     ELSE walk' = rest /\ pc' = "walk" /\ result' = "none"
    /\ UNCHANGED <<cfg, replacer, fs0, prevRun, nruns>>
    /\ UNCHANGED engineVars
    /\ UNCHANGED sideVars

(***************************************************************************)
(* Templates                                                               *)
(***************************************************************************)
Under(d, name) == d \o Slash \o name

\* text longer than the preview, and text that the preview just holds
LongText == Wrap("braces", <<"a">>) \o [i \in 1..PreviewLen |-> "-"]

\* a zero byte as the first byte, as the last byte IsBinaryFile reads, and
\* as the first byte it does not read
ZeroFirst == <<NUL>> \o Wrap("braces", <<"a">>)
ZeroLast == [i \in 1..(SniffLen - 1) |-> "-"] \o <<NUL>>
ZeroLate == [i \in 1..SniffLen |-> "-"] \o <<NUL>>

\* the entries a template tree is made of: path below the root and node
Candidates ==
    {[path |-> <<"c">>, node |-> FileNode(M644, Wrap("braces", <<"a">>) \o Wrap("percent", <<"b">>))],
     [path |-> Wrap("underscores", <<"a">>), node |-> FileNode(M444, Wrap("percent", <<"b">>))],
     [path |-> <<"b">>, node |-> FileNode(M755, ZeroFirst)],
     [path |-> Wrap("braces", <<"a">>), node |-> DirNode(M755)],
     [path |-> Wrap("braces", <<"a">>) \o Slash \o <<"c">>,
      node |-> FileNode(M644, Wrap("angle", <<"a">>))],
     [path |-> <<"x">>, node |-> FileNode(M644, <<"x">>)],
     [path |-> <<"d">>, node |-> FileNode(M644, LongText)],
     [path |-> <<"c", "c">>, node |-> FileNode(M644, ZeroLast)],
     [path |-> <<"d", "d">>, node |-> FileNode(M644, ZeroLate)],
     [path |-> <<"b", "b">>, node |-> FileNode(M200, <<"x">>)],
     [path |-> Wrap("percent", <<"a">>), node |-> FileNode(M644, Wrap("braces", <<"a">>))]}

\* a template tree: every entry's directory is the root or an entry
Templates ==
    {T \in SUBSET Candidates :
        /\ Cardinality(T) <= MaxEntries
        /\ \A e \in T : Dir(e.path) = Dot \/ \E d \in T : d.path = Dir(e.path)}

\* the disk that holds the working directory and the template tree T
Disk(T) ==
    [p \in {Dot, TemplateRoot} \cup {Under(TemplateRoot, e.path) : e \in T} |->
        IF p = Dot \/ p = TemplateRoot THEN DirNode(M755)
        ELSE (CHOOSE e \in T : Under(TemplateRoot, e.path) = p).node]

\* no variable, plain values, an empty value, a value that is a path with
\* a ".." segment
GenVarSets ==
    {<<>>,
     (<<"a">> :> <<"x">>) @@ (<<"b">> :> <<"d">>),
     (<<"a">> :> <<>>),
     (<<"a">> :> <<".", ".", "/", "x">>)}

OutputDirs == {<<"o">>, Under(TemplateRoot, <<"o">>)}

\* the template root is a regular file
FileRootDisk == (TemplateRoot :> FileNode(M644, Wrap("braces", <<"a">>))) @@ EmptyDisk

\* the disks a run starts on: a template tree, a file where the template
\* root should be, no template root
Disks == {Disk(T) : T \in Templates} \cup {FileRootDisk, EmptyDisk}

Init ==
    /\ \E vs \in GenVarSets, od \in OutputDirs :
          /\ cfg = [DefaultConfig EXCEPT !.Variables = vs, !.OutputDir = od]
          /\ replacer = NewReplacer(vs)
    /\ fs \in Disks
    /\ fs0 = fs
    /\ pc = "idle"
    /\ walk = <<>>
    /\ stdout = <<>>
    /\ log = <<>>
    /\ result = "none"
    /\ prevRun = NoRun
    /\ nruns = 0
    /\ input = <<>>
    /\ output = <<>>
    /\ extracted = {}
    /\ op = "none"
    /\ SideIdle

DryRunGenerate == Generate(TRUE)
RealGenerate == Generate(FALSE)

Next ==
    \/ DryRunGenerate
    \/ RealGenerate
    \/ WalkStep

Spec == Init /\ [][Next]_vars

(***************************************************************************)
(* package interactive: the Prompter                                       *)
(***************************************************************************)
Space == " "

\* strings.TrimSpace
RECURSIVE TrimLeft(_)
TrimLeft(s) == IF s # <<>> /\ Head(s) = Space THEN TrimLeft(Tail(s)) ELSE s
RECURSIVE TrimRight(_)
TrimRight(s) ==
    IF s # <<>> /\ s[Len(s)] = Space THEN TrimRight(SubSeq(s, 1, Len(s) - 1)) ELSE s
TrimSpace(s) == TrimRight(TrimLeft(s))

\* strings.ToLower
LowerChar(c) ==
    CASE c = "Y" -> "y"
      [] c = "E" -> "e"
      [] c = "S" -> "s"
      [] OTHER -> c
ToLower(s) == [i \in 1..Len(s) |-> LowerChar(s[i])]

\* a prompt and the line read for it; eof when there was no line to read
Asked(kind, key, default, line, eof) ==
    [kind |-> kind, key |-> key, default |-> default, line |-> line, eof |-> eof]

\* an empty response is not replaced by the default
RECURSIVE PromptLoop_NoDefault(_, _, _, _, _)
PromptLoop_NoDefault(variables, varKeys, lines, res, log0) ==
    IF varKeys = <<>> THEN [ok |-> TRUE, vs |-> res, asked |-> log0, rest |-> lines]
    ELSE LET key == Head(varKeys)
             defaultValue == variables[key]
         IN  IF lines = <<>>
             THEN [ok |-> FALSE, vs |-> <<>>,
                   asked |-> Append(log0, Asked("value", key, defaultValue, <<>>, TRUE)),
                   rest |-> <<>>]
             ELSE PromptLoop_NoDefault(variables, Tail(varKeys), Tail(lines),
                             (key :> TrimSpace(Head(lines))) @@ res,
                             Append(log0, Asked("value", key, defaultValue, Head(lines), FALSE)))

\* `for i, key := range varKeys`: one prompt and one line per key
RECURSIVE PromptLoop(_, _, _, _, _)
PromptLoop(variables, varKeys, lines, res, log0) ==
    IF varKeys = <<>> THEN [ok |-> TRUE, vs |-> res, asked |-> log0, rest |-> lines]
    ELSE LET key == Head(varKeys)
             defaultValue == variables[key]
         IN  IF lines = <<>>
             THEN [ok |-> FALSE, vs |-> <<>>,
                   asked |-> Append(log0, Asked("value", key, defaultValue, <<>>, TRUE)),
                   rest |-> <<>>]
             ELSE LET trimmed == TrimSpace(Head(lines))
                      in == IF trimmed = <<>> /\ defaultValue # <<>>
                            THEN defaultValue ELSE trimmed
                  IN  PromptLoop(variables, Tail(varKeys), Tail(lines), (key :> in) @@ res,
                                 Append(log0, Asked("value", key, defaultValue, Head(lines), FALSE)))

\* PromptForValues(variables) reading the lines; varKeys is the order in which
\* `for k := range variables` filled the slice
PromptForValues(variables, lines, varKeys) == PromptLoop(variables, varKeys, lines, <<>>, <<>>)

\* an empty line confirms
PromptForConfirmation_DefaultYes(lines) ==
    IF lines = <<>>
    THEN [answer |-> "error", asked |-> <<Asked("confirm", <<>>, <<>>, <<>>, TRUE)>>, rest |-> <<>>]
    ELSE [answer |-> IF TrimSpace(ToLower(Head(lines))) \in {<<>>, <<"y">>, <<"y", "e", "s">>}
                     THEN "yes" ELSE "no",
          asked |-> <<Asked("confirm", <<>>, <<>>, Head(lines), FALSE)>>,
          rest |-> Tail(lines)]

\* PromptForConfirmation(message) reading the lines
PromptForConfirmation(lines) ==
    IF lines = <<>>
    THEN [answer |-> "error", asked |-> <<Asked("confirm", <<>>, <<>>, <<>>, TRUE)>>, rest |-> <<>>]
    ELSE [answer |-> IF TrimSpace(ToLower(Head(lines))) \in {<<"y">>, <<"y", "e", "s">>}
                     THEN "yes" ELSE "no",
          asked |-> <<Asked("confirm", <<>>, <<>>, Head(lines), FALSE)>>,
          rest |-> Tail(lines)]

\* number of lines standard input holds
MaxLines == 3

\* the lines a user types, without the newline
Lines ==
    {<<>>, <<Space>>, <<Space, "x", Space>>, <<"y">>, <<"Y", "e", "s", Space>>, <<"n">>}

Scripts == UNION {[1..n -> Lines] : n \in 0..MaxLines}

InitPrompter ==
    /\ cfg = DefaultConfig
    /\ replacer = NewReplacer(<<>>)
    /\ input = <<>>
    /\ output = <<>>
    /\ extracted = {}
    /\ op = "none"
    /\ fs = EmptyDisk
    /\ fs0 = EmptyDisk
    /\ pc = "idle"
    /\ walk = <<>>
    /\ stdout = <<>>
    /\ log = <<>>
    /\ result = "none"
    /\ prevRun = NoRun
    /\ nruns = 0
    /\ again = <<>>
    /\ binary = "none"
    /\ stdin \in Scripts
    /\ asked = <<>>
    /\ \E vs \in VarSets : found = [ok |-> TRUE, vs |-> vs]
    /\ values = NoVariables
    /\ confirmed = "none"
    /\ flags = NoFlags
    /\ disk = NoFiles

\* PromptForValues called on the Variable Set found
CallPromptForValues ==
    /\ op = "none"
    /\ \E varKeys \in KeyOrders(found.vs) :
          LET r == PromptForValues(found.vs, stdin, varKeys)
          IN  /\ values' = [ok |-> r.ok, vs |-> r.vs]
              /\ asked' = asked \o r.asked
              /\ stdin' = r.rest
    /\ op' = "PromptForValues"
    /\ UNCHANGED <<cfg, replacer, input, output, extracted>>
    /\ UNCHANGED genVars
    /\ UNCHANGED <<again, binary, found, confirmed, cliVars>>

CallPromptForConfirmation ==
    /\ op = "none"
    /\ LET r == PromptForConfirmation(stdin)
       IN  /\ confirmed' = r.answer
           /\ asked' = asked \o r.asked
           /\ stdin' = r.rest
    /\ op' = "PromptForConfirmation"
    /\ UNCHANGED <<cfg, replacer, input, output, extracted>>
    /\ UNCHANGED genVars
    /\ UNCHANGED <<again, binary, found, values, cliVars>>

NextPrompter ==
    \/ CallPromptForValues
    \/ CallPromptForConfirmation

SpecPrompter == InitPrompter /\ [][NextPrompter]_vars

(***************************************************************************)
(* main: the command line and loadConfig                                   *)
(***************************************************************************)
\* flag.Parse: the flag variables hold the value given on the command line
\* or the default of init; argv is what was given
FlagParse(argv) ==
    [given |-> argv.given,
     templateDir |-> IF "t" \in argv.given THEN argv.t ELSE NoFlags.templateDir,
     outputDir |-> IF "o" \in argv.given THEN argv.o ELSE NoFlags.outputDir,
     configFile |-> IF "c" \in argv.given THEN argv.c ELSE NoFlags.configFile,
     variables |-> IF "v" \in argv.given THEN argv.v ELSE NoFlags.variables,
     interactiveMode |-> "i" \in argv.given,
     dryRun |-> "dry-run" \in argv.given,
     skipConfirm |-> "y" \in argv.given]

\* strings.Split(s, sep) for a separator of one character
RECURSIVE Split(_, _)
Split(s, sep) ==
    LET at == {i \in 1..Len(s) : s[i] = sep}
    IN  IF at = {} THEN <<s>>
        ELSE <<SubSeq(s, 1, Min(at) - 1)>> \o Split(SubSeq(s, Min(at) + 1, Len(s)), sep)

\* strings.SplitN(s, sep, 2)
SplitN2(s, sep) ==
    LET at == {i \in 1..Len(s) : s[i] = sep}
    IN  IF at = {} THEN <<s>>
        ELSE <<SubSeq(s, 1, Min(at) - 1), SubSeq(s, Min(at) + 1, Len(s))>>

\* a key the config file already has keeps the value of the config file
RECURSIVE MergeVariables_ConfigWins(_, _)
MergeVariables_ConfigWins(variables, pairs) ==
    IF pairs = <<>> THEN variables
    ELSE LET parts == SplitN2(Head(pairs), "=")
         IN  MergeVariables_ConfigWins(
                 IF Len(parts) = 2
                 THEN variables @@ (TrimSpace(parts[1]) :> TrimSpace(parts[2]))
                 ELSE variables,
                 Tail(pairs))

\* `for _, v := range vars`: key=value pairs set in cfg.Variables, in order
RECURSIVE MergeVariables(_, _)
MergeVariables(variables, pairs) ==
    IF pairs = <<>> THEN variables
    ELSE LET parts == SplitN2(Head(pairs), "=")
         IN  MergeVariables(IF Len(parts) = 2
                            THEN (TrimSpace(parts[1]) :> TrimSpace(parts[2])) @@ variables
                            ELSE variables,
                            Tail(pairs))

\* the value of a key of a JSON object, or the zero value left by
\* json.Unmarshal when the object has no such key
Field(object, key, zero) == IF key \in DOMAIN object THEN object[key] ELSE zero

\* config.LoadConfig(configPath): [ok, cfg]
LoadConfig(files, configPath) ==
    IF configPath \notin DOMAIN files \/ "invalid" \in DOMAIN files[configPath]
    THEN [ok |-> FALSE, cfg |-> DefaultConfig]
    ELSE LET data == files[configPath]
             formats == Field(data, "formats", <<>>)
         IN  [ok |-> TRUE,
              cfg |-> [TemplateDir |-> Field(data, "templateDir", <<>>),
                       OutputDir |-> Field(data, "outputDir", <<>>),
                       Variables |-> Field(data, "variables", <<>>),
                       Interactive |-> Field(data, "interactive", FALSE),
                       DryRun |-> Field(data, "dryRun", FALSE),
                       SkipConfirm |-> Field(data, "skipConfirm", FALSE),
                       Formats |->
                           [EnableBraces |-> Field(formats, "enableBraces", FALSE),
                            EnableAngleBrackets |-> Field(formats, "enableAngleBrackets", FALSE),
                            EnableUnderscores |-> Field(formats, "enableUnderscores", FALSE),
                            EnablePercent |-> Field(formats, "enablePercent", FALSE)]]]

\* the config file names tried when -c is not given, in order
AutoDetected == <<"stencil.json", ".stencil.json", "stencil.config.json">>

\* the config file loadConfig reads: the -c flag or the first candidate
\* that exists, "" when there is none
ConfigFileOf(fl, files) ==
    IF fl.configFile # "" THEN fl.configFile
    ELSE LET hits == {i \in 1..Len(AutoDetected) : AutoDetected[i] \in DOMAIN files}
         IN  IF hits = {} THEN "" ELSE AutoDetected[Min(hits)]

\* loadConfig(): [ok, cfg, configFile]
loadConfig(fl, files) ==
    LET configFile == ConfigFileOf(fl, files)
        loaded == IF configFile # "" THEN LoadConfig(files, configFile)
                  ELSE [ok |-> TRUE, cfg |-> DefaultConfig]
        c == loaded.cfg
    IN  IF ~loaded.ok THEN [ok |-> FALSE, cfg |-> DefaultConfig, configFile |-> configFile]
        ELSE [ok |-> TRUE,
              cfg |-> [c EXCEPT
                  !.TemplateDir = IF fl.templateDir # <<>> THEN fl.templateDir ELSE @,
                  !.OutputDir = IF fl.outputDir # <<>> THEN fl.outputDir ELSE @,
                  !.Interactive = IF fl.interactiveMode THEN TRUE ELSE @,
                  !.DryRun = IF fl.dryRun THEN TRUE ELSE @,
                  !.SkipConfirm = IF fl.skipConfirm THEN TRUE ELSE @,
                  !.Variables = IF fl.variables # <<>>
                                THEN MergeVariables(@, Split(fl.variables, ","))
                                ELSE @],
              configFile |-> configFile]

\* what is given on the command line
FlagNames == {"t", "o", "c", "v", "i", "dry-run", "y"}
Argvs ==
    {[given |-> g, t |-> <<"t", "t">>, o |-> <<"o", "o">>, c |-> c, v |-> v] :
        g \in SUBSET FlagNames,
        c \in {"my.json", "missing.json"},
        v \in {<<"a", "=", "x">>, <<"b", "=", Space, "d", ",", "a", "=", "b", "=">>, <<"a">>,
                <<"a", "=", "x", ",", "d", "=", ",", "a", "=", "d">>}}

\* config files: every key, some keys, no key, not JSON
FullFile ==
    [templateDir |-> <<"c", "t">>, outputDir |-> <<"c", "o">>,
     variables |-> (<<"a">> :> <<"c">>) @@ (<<"b">> :> <<>>),
     interactive |-> FALSE, dryRun |-> TRUE, skipConfirm |-> FALSE,
     formats |-> [enableBraces |-> TRUE, enableAngleBrackets |-> TRUE,
                  enableUnderscores |-> TRUE, enablePercent |-> FALSE]]
PartFile == [outputDir |-> <<"c", "o">>, variables |-> (<<"a">> :> <<"c">>)]
EmptyFile == <<>>
BadFile == [invalid |-> TRUE]

\* the config files of the working directory
ConfigDisks ==
    {NoFiles,
     "stencil.json" :> FullFile,
     ".stencil.json" :> PartFile,
     "my.json" :> FullFile,
     ("my.json" :> PartFile) @@ ("stencil.json" :> FullFile),
     ("stencil.config.json" :> FullFile) @@ (".stencil.json" :> EmptyFile),
     "stencil.json" :> BadFile}

InitConfig ==
    /\ cfg = DefaultConfig
    /\ replacer = NewReplacer(<<>>)
    /\ input = <<>>
    /\ output = <<>>
    /\ extracted = {}
    /\ op = "none"
    /\ fs = EmptyDisk
    /\ fs0 = EmptyDisk
    /\ pc = "idle"
    /\ walk = <<>>
    /\ stdout = <<>>
    /\ log = <<>>
    /\ result = "none"
    /\ prevRun = NoRun
    /\ nruns = 0
    /\ again = <<>>
    /\ binary = "none"
    /\ stdin = <<>>
    /\ asked = <<>>
    /\ found = NoVariables
    /\ values = NoVariables
    /\ confirmed = "none"
    /\ \E argv \in Argvs : flags = FlagParse(argv)
    /\ disk \in ConfigDisks

\* `cfg, err := loadConfig()` in main; an error ends the program
CallLoadConfig ==
    /\ op = "none"
    /\ LET r == loadConfig(flags, disk)
       IN  /\ cfg' = r.cfg
           /\ flags' = [flags EXCEPT !.configFile = r.configFile]
           /\ result' = IF r.ok THEN result ELSE "error"
           /\ pc' = IF r.ok THEN pc ELSE "done"
    /\ op' = "loadConfig"
    /\ UNCHANGED <<replacer, input, output, extracted>>
    /\ UNCHANGED <<fs, walk, stdout, log, fs0, prevRun, nruns>>
    /\ UNCHANGED <<again, binary, promptVars, disk>>

NextConfig == CallLoadConfig

SpecConfig == InitConfig /\ [][NextConfig]_vars

(***************************************************************************)
(* Interactive mode: runInteractiveMode                                    *)
(***************************************************************************)
\* the content of binary files is scanned like that of text files
ExtractVariablesOf_ScanBinary(f, root, path) ==
    IF f[path].kind = "dir"
    THEN IF "ur" \notin f[path].mode THEN [ok |-> FALSE, names |-> {}]
         ELSE [ok |-> TRUE,
               names |-> IF path = root THEN {} ELSE ExtractVariablesFromPath(Rel(root, path))]
    ELSE IF ~CanOpen(f, path) THEN [ok |-> FALSE, names |-> {}]
         ELSE [ok |-> TRUE,
               names |-> ExtractVariablesFromPath(Rel(root, path))
                            \cup ExtractVariablesFromFile(f[path].data)]

\* the function ExtractVariables hands to filepath.Walk, called on path
ExtractVariablesOf(f, root, path) ==
    IF f[path].kind = "dir"
    THEN IF "ur" \notin f[path].mode THEN [ok |-> FALSE, names |-> {}]
         ELSE [ok |-> TRUE,
               names |-> IF path = root THEN {} ELSE ExtractVariablesFromPath(Rel(root, path))]
    ELSE LET fromPath == ExtractVariablesFromPath(Rel(root, path))
         IN  IF IsBinaryFile(f, path) THEN [ok |-> TRUE, names |-> fromPath]
             ELSE IF ~CanOpen(f, path) THEN [ok |-> FALSE, names |-> {}]
             ELSE [ok |-> TRUE, names |-> fromPath \cup ExtractVariablesFromFile(f[path].data)]

\* ExtractVariables: the walk visits the root and every entry under it and
\* returns nil at the first error; every name found is mapped to ""
ExtractVariables(f, c) ==
    LET root == c.TemplateDir
        visited == {root} \cup EntriesUnder(f, root)
    IN  IF root \notin DOMAIN f THEN NoVariables
        ELSE IF \E p \in visited : ~ExtractVariablesOf(f, root, p).ok THEN NoVariables
        ELSE [ok |-> TRUE,
              vs |-> [k \in UNION {ExtractVariablesOf(f, root, p).names : p \in visited} |-> <<>>]]

\* the prompts follow also when no variable was found
RunExtractVariables_AlwaysPrompt ==
    /\ pc = "interactive"
    /\ found' = ExtractVariables(fs, cfg)
    /\ IF ~found'.ok THEN pc' = "done" /\ result' = "error"
       ELSE pc' = "prompt" /\ result' = result
    /\ UNCHANGED <<cfg, replacer, fs, walk, stdout, log, fs0, prevRun, nruns>>
    /\ UNCHANGED engineVars
    /\ UNCHANGED <<again, binary, stdin, asked, values, confirmed, cliVars>>

\* `variables, err := gen.ExtractVariables()` and the test of len(variables)
RunExtractVariables ==
    /\ pc = "interactive"
    /\ found' = ExtractVariables(fs, cfg)
    /\ IF ~found'.ok THEN pc' = "done" /\ result' = "error"
       ELSE IF DOMAIN found'.vs = {} THEN pc' = "ready" /\ result' = result
       ELSE pc' = "prompt" /\ result' = result
    /\ UNCHANGED <<cfg, replacer, fs, walk, stdout, log, fs0, prevRun, nruns>>
    /\ UNCHANGED engineVars
    /\ UNCHANGED <<again, binary, stdin, asked, values, confirmed, cliVars>>

\* `values, err := prompter.PromptForValues(variables)`
RunPromptForValues ==
    /\ pc = "prompt"
    /\ \E varKeys \in KeyOrders(found.vs) :
          LET r == PromptForValues(found.vs, stdin, varKeys)
          IN  /\ values' = [ok |-> r.ok, vs |-> r.vs]
              /\ asked' = asked \o r.asked
              /\ stdin' = r.rest
              /\ IF ~r.ok THEN pc' = "done" /\ result' = "error"
                 ELSE IF cfg.SkipConfirm THEN pc' = "set" /\ result' = result
                 ELSE pc' = "confirm" /\ result' = result
    /\ UNCHANGED <<cfg, replacer, fs, walk, stdout, log, fs0, prevRun, nruns>>
    /\ UNCHANGED engineVars
    /\ UNCHANGED <<again, binary, found, confirmed, cliVars>>

\* `confirmed, err := prompter.PromptForConfirmation(...)`; not confirmed is
\* "Generation cancelled." and return nil
RunPromptForConfirmation ==
    /\ pc = "confirm"
    /\ LET r == PromptForConfirmation(stdin)
       IN  /\ confirmed' = r.answer
           /\ asked' = asked \o r.asked
           /\ stdin' = r.rest
           /\ IF r.answer = "error" THEN pc' = "done" /\ result' = "error"
              ELSE IF r.answer = "no" THEN pc' = "done" /\ result' = "ok"
              ELSE pc' = "set" /\ result' = result
    /\ UNCHANGED <<cfg, replacer, fs, walk, stdout, log, fs0, prevRun, nruns>>
    /\ UNCHANGED engineVars
    /\ UNCHANGED <<again, binary, found, values, cliVars>>

\* gen.SetVariables(values)
SetVariables ==
    /\ pc = "set"
    /\ cfg' = [cfg EXCEPT !.Variables = values.vs]
    /\ replacer' = NewReplacer(values.vs)
    /\ pc' = "ready"
    /\ UNCHANGED <<fs, walk, stdout, log, result, fs0, prevRun, nruns>>
    /\ UNCHANGED engineVars
    /\ UNCHANGED sideVars

\* `return gen.Generate()`
InteractiveGenerate == pc = "ready" /\ Generate(cfg.DryRun)

\* the lines typed in interactive mode
InteractiveLines == {<<>>, <<Space, "x", Space>>, <<"Y", "e", "s", Space>>, <<"n">>}
InteractiveScripts == UNION {[1..n -> InteractiveLines] : n \in 0..MaxLines}

\* the entries of the templates of interactive mode
InteractiveEntries ==
    {e \in Candidates : Len(e.node.data) <= 2 * Len(Wrap("braces", <<"a">>))}
        \cup {[path |-> <<"d">>, node |-> FileNode(M644, Wrap("percent", <<"b">>))]}

InteractiveTemplates ==
    {T \in SUBSET InteractiveEntries :
        /\ Cardinality(T) <= MaxEntries
        /\ \A e \in T : Dir(e.path) = Dot \/ \E d \in T : d.path = Dir(e.path)}

\* variables configured before the run: none, or a value for a
ConfiguredVarSets == {<<>>, (<<"a">> :> <<"d">>)}

InitInteractive ==
    /\ \E vs \in ConfiguredVarSets, y \in BOOLEAN :
          /\ cfg = [DefaultConfig EXCEPT !.Variables = vs, !.Interactive = TRUE,
                                         !.SkipConfirm = y]
          /\ replacer = NewReplacer(vs)
    /\ fs \in {Disk(T) : T \in InteractiveTemplates} \cup {FileRootDisk}
    /\ fs0 = fs
    /\ pc = "interactive"
    /\ walk = <<>>
    /\ stdout = <<>>
    /\ log = <<>>
    /\ result = "none"
    /\ prevRun = NoRun
    /\ nruns = 0
    /\ input = <<>>
    /\ output = <<>>
    /\ extracted = {}
    /\ op = "none"
    /\ again = <<>>
    /\ binary = "none"
    /\ stdin \in InteractiveScripts
    /\ asked = <<>>
    /\ found = NoVariables
    /\ values = NoVariables
    /\ confirmed = "none"
    /\ flags = NoFlags
    /\ disk = NoFiles

NextInteractive ==
    \/ RunExtractVariables
    \/ RunPromptForValues
    \/ RunPromptForConfirmation
    \/ SetVariables
    \/ InteractiveGenerate
    \/ WalkStep

SpecInteractive == InitInteractive /\ [][NextInteractive]_vars

(***************************************************************************)
(* IsBinaryFile called on a path of a disk                                 *)
(***************************************************************************)
\* an empty file, a file the process cannot read, a binary file, a text
\* file and a directory
ProbeEntries ==
    {[path |-> <<"c">>, node |-> FileNode(M644, <<>>)],
     [path |-> <<"x">>, node |-> FileNode(M200, <<NUL, "x">>)],
     [path |-> <<"b">>, node |-> FileNode(M644, ZeroFirst)],
     [path |-> <<"d">>, node |-> FileNode(M644, Wrap("braces", <<"a">>))],
     [path |-> <<"a">>, node |-> DirNode(M755)]}

\* the paths asked about: the entries, on disk or not
ProbePaths == {Under(TemplateRoot, e.path) : e \in ProbeEntries}

InitClassifier ==
    /\ cfg = DefaultConfig
    /\ replacer = NewReplacer(<<>>)
    /\ \E T \in SUBSET ProbeEntries : fs = Disk(T)
    /\ input \in ProbePaths
    /\ output = <<>>
    /\ extracted = {}
    /\ op = "none"
    /\ fs0 = fs
    /\ pc = "idle"
    /\ walk = <<>>
    /\ stdout = <<>>
    /\ log = <<>>
    /\ result = "none"
    /\ prevRun = NoRun
    /\ nruns = 0
    /\ SideIdle

CallIsBinaryFile ==
    /\ op = "none"
    /\ binary' = IF IsBinaryFile(fs, input) THEN "true" ELSE "false"
    /\ op' = "IsBinaryFile"
    /\ UNCHANGED <<cfg, replacer, input, output, extracted>>
    /\ UNCHANGED genVars
    /\ UNCHANGED <<again, promptVars, cliVars>>

NextClassifier == CallIsBinaryFile

SpecClassifier == InitClassifier /\ [][NextClassifier]_vars

Replaced == op \in {"ReplaceInContent", "ReplaceInPath"}
Extracted == op \in {"ExtractVariablesFromFile", "ExtractVariablesFromPath"}

\* a name that contains none of the delimiter sequences
NoDelimSeq(k) == \A f \in FormatNames : ~Contains(k, Open(f)) /\ ~Contains(k, Close(f))

C2_Orig ==
    Replaced =>
        \A o \in KeyOrders(replacer.variables) :
            ReplaceLoop(input, replacer.variables, o) = output

(***************************************************************************)
(* Well-separated input: the input reads, left to right, as text without   *)
(* delimiter characters and placeholders of names without delimiter        *)
(* characters.                                                             *)
(***************************************************************************)
PlainName(k) == k # <<>> /\ \A i \in 1..Len(k) : k[i] \notin DelimChars
NoDelimChar(v) == \A i \in 1..Len(v) : v[i] \notin DelimChars

\* the format whose placeholder of a plain name starts at position i, or "none"
PlaceholderAt(s, i) ==
    LET fits(f) == /\ HasPrefixAt(s, Open(f), i)
                   /\ LET j == i + Len(Open(f))
                          n == RunLen(s, j, Chars \ DelimChars)
                      IN  n > 0 /\ HasPrefixAt(s, Close(f), j + n)
    IN  IF \E f \in FormatNames : fits(f) THEN CHOOSE f \in FormatNames : fits(f) ELSE "none"

\* the tokens of s from position i on; <<"stray">> marks a delimiter
\* character that belongs to no placeholder
RECURSIVE Parse(_, _)
Parse(s, i) ==
    IF i > Len(s) THEN <<>>
    ELSE IF s[i] \notin DelimChars
         THEN <<[kind |-> "text", f |-> "none", name |-> <<s[i]>>]>> \o Parse(s, i + 1)
         ELSE LET f == PlaceholderAt(s, i)
              IN  IF f = "none" THEN <<[kind |-> "stray", f |-> "none", name |-> <<s[i]>>]>>
                  ELSE LET j == i + Len(Open(f))
                           n == RunLen(s, j, Chars \ DelimChars)
                       IN  <<[kind |-> "placeholder", f |-> f, name |-> SubSeq(s, j, j + n - 1)]>>
                               \o Parse(s, j + n + Len(Close(f)))

KeyChars(vs) == UNION {{k[i] : i \in 1..Len(k)} : k \in DOMAIN vs}

\* two placeholders of a format whose opening and closing delimiters are the
\* same have a character between them that occurs in no variable name
Separated(toks, vs) ==
    \A p, q \in 1..Len(toks) :
        (/\ p < q
         /\ toks[p].kind = "placeholder" /\ toks[q].kind = "placeholder"
         /\ toks[p].f = toks[q].f /\ toks[p].f \in {"underscores", "percent"})
        => \E m \in (p + 1)..(q - 1) :
              toks[m].kind = "text" /\ toks[m].name[1] \notin KeyChars(vs)

WellSeparated(s, vs) ==
    LET toks == Parse(s, 1)
    IN  /\ \A k \in DOMAIN vs : PlainName(k) /\ NoDelimChar(vs[k])
        /\ \A m \in 1..Len(toks) : toks[m].kind # "stray"
        /\ Separated(toks, vs)

\* every placeholder of a variable name replaced by the value, the rest kept
RECURSIVE Expected(_, _)
Expected(toks, vs) ==
    IF toks = <<>> THEN <<>>
    ELSE LET t == Head(toks)
         IN  (IF t.kind = "placeholder"
              THEN IF t.name \in DOMAIN vs THEN vs[t.name] ELSE Wrap(t.f, t.name)
              ELSE t.name) \o Expected(Tail(toks), vs)

\* every placeholder of the input is of an enabled format
AllEnabled(toks, fo) ==
    \A m \in 1..Len(toks) : toks[m].kind = "placeholder" => FormatEnabled(fo, toks[m].f)

Occurrences(s, p) == {i \in 1..Len(s) : HasPrefixAt(s, p, i)}

\* the names extraction reports that are no key of the Variable Set
AbsentNames(s, vs, f) == FindAll(s, f) \ DOMAIN vs

RECURSIVE AbsentPlaceholders(_, _)
AbsentPlaceholders(toks, vs) ==
    IF toks = <<>> THEN <<>>
    ELSE (IF Head(toks).kind = "placeholder" /\ Head(toks).name \notin DOMAIN vs
          THEN <<Head(toks)>> ELSE <<>>) \o AbsentPlaceholders(Tail(toks), vs)

RECURSIVE ExpectedEnabled(_, _, _)
ExpectedEnabled(toks, vs, fo) ==
    IF toks = <<>> THEN <<>>
    ELSE LET t == Head(toks)
         IN  (IF t.kind = "placeholder"
              THEN IF t.name \in DOMAIN vs /\ FormatEnabled(fo, t.f)
                   THEN vs[t.name] ELSE Wrap(t.f, t.name)
              ELSE t.name) \o ExpectedEnabled(Tail(toks), vs, fo)

\* C4: on well-separated input the placeholders of a disabled format stay
\* verbatim, those of the enabled formats are replaced by the value.
C4_DisabledFormatVerbatim ==
    (Replaced /\ WellSeparated(input, replacer.variables)) =>
        output = ExpectedEnabled(Parse(input, 1), replacer.variables, cfg.Formats)

\* C5: extraction returns the names matched by the enabled formats, no other.
C5_ExtractEnabledOnly ==
    Extracted =>
        extracted = UNION {FindAll(input, f) : f \in {g \in FormatNames : FormatEnabled(cfg.Formats, g)}}

(***************************************************************************)
(* Properties of the generation walk                                       *)
(***************************************************************************)
\* C6: a dry run leaves the filesystem as it found it.
C6_DryRunMutatesNothing ==
    (cfg.DryRun /\ pc \in {"walk", "done"}) => fs = fs0

\* the destination paths of the lines printed or of the entries written
Destinations(entries) == [i \in 1..Len(entries) |-> entries[i].dst]

FirstChars(s, n) == SubSeq(s, 1, IF Len(s) < n THEN Len(s) ELSE n)

\* C7: the real run that follows a dry run creates or writes the paths the
\* dry run printed, in that order, and each preview shows the first 200
\* characters of what the real run writes to the path.
C7_DryRunReportsRealRun ==
    (pc = "done" /\ ~cfg.DryRun /\ prevRun.DryRun /\ prevRun.result = "ok") =>
        /\ Destinations(prevRun.stdout) = Destinations(log)
        /\ \A i \in 1..Len(log) :
              log[i].kind = "file" =>
                  FirstChars(prevRun.stdout[i].text, PreviewLen)
                      = FirstChars(log[i].text, PreviewLen)

\* entry i of the log is the last one written to its destination
LastWriter(i) == \A j \in (i + 1)..Len(log) : log[j].dst # log[i].dst

\* C8: the destination of a file classified binary holds the bytes of the
\* template file, placeholders included, for as long as no later entry is
\* written to the same path.
C8_BinaryCopiedVerbatim ==
    \A i \in 1..Len(log) :
        (log[i].kind = "binary" /\ LastWriter(i)) =>
            /\ log[i].dst \in DOMAIN fs
            /\ fs[log[i].dst].kind = "file"
            /\ fs[log[i].dst].data = log[i].srcData

C8_Witness ==
    /\ pc = "done" /\ result = "ok" /\ ~cfg.DryRun
    /\ <<"a">> \in DOMAIN replacer.variables
    /\ \E i \in 1..Len(log) :
          /\ log[i].kind = "binary"
          /\ Contains(log[i].srcData, Wrap("braces", <<"a">>))
          /\ fs[log[i].dst].data = log[i].srcData

\* C9: after a successful real run every generated file and directory has
\* the permission bits of its template entry.
C9_PermissionsPreserved ==
    (pc = "done" /\ result = "ok" /\ ~cfg.DryRun) =>
        \A i \in 1..Len(log) : LastWriter(i) => fs[log[i].dst].mode = log[i].srcMode

\* a zero byte among the first 512 bytes
ZeroInFirst512(data) == \E i \in 1..Len(data) : i <= 512 /\ data[i] = NUL

\* C10: a file that could be read is classified binary exactly when one of
\* its first 512 bytes is zero.
C10_BinaryIffZeroInFirst512 ==
    \A e \in {stdout[i] : i \in 1..Len(stdout)} \cup {log[i] : i \in 1..Len(log)} :
        e.kind # "dir" => (e.kind = "binary" <=> ZeroInFirst512(e.srcData))

C10_Witness ==
    /\ \E i \in 1..Len(log) :
          /\ log[i].kind = "file"
          /\ \E k \in 1..Len(log[i].srcData) : log[i].srcData[k] = NUL
    /\ \E i \in 1..Len(log) :
          /\ log[i].kind = "binary"
          /\ Len(log[i].srcData) = 512
          /\ \A k \in 1..511 : log[i].srcData[k] # NUL

C11_ClassifierFailsOpen ==
    op = "IsBinaryFile" =>
        /\ binary \in {"true", "false"}
        /\ (\/ input \notin DOMAIN fs
            \/ "ur" \notin fs[input].mode
            \/ fs[input].kind = "dir"
            \/ fs[input].data = <<>>) => binary = "false"

C11_Witness ==
    /\ op = "IsBinaryFile"
    /\ input \in DOMAIN fs
    /\ "ur" \notin fs[input].mode
    /\ \E i \in 1..Len(fs[input].data) : fs[input].data[i] = NUL
    /\ binary = "false"

\* C12: Generate on a template root that is a regular file returns an error
\* and creates nothing.
C12_FileRootFails ==
    (pc = "done" /\ cfg.TemplateDir \in DOMAIN fs0 /\ fs0[cfg.TemplateDir].kind = "file") =>
        /\ result = "error"
        /\ fs = fs0

\* C13: Generate on a template root that does not exist returns an error,
\* visits no entry and leaves the filesystem as it was.
C13_MissingRootFails ==
    (nruns > 0 /\ cfg.TemplateDir \notin DOMAIN fs0) =>
        /\ pc = "done" /\ result = "error"
        /\ walk = <<>> /\ stdout = <<>> /\ log = <<>>
        /\ fs = fs0

C13_Witness ==
    /\ nruns > 0 /\ cfg.TemplateDir \notin DOMAIN fs0
    /\ pc = "done" /\ result = "error"
    /\ cfg.OutputDir \notin DOMAIN fs

\* the template entries the current run has printed or written
Sources == {stdout[i].src : i \in 1..Len(stdout)} \cup {log[i].src : i \in 1..Len(log)}

\* what the run wrote is in place: every directory it created is a
\* directory, every file holds what was last written to it
WrittenInPlace ==
    \A i \in 1..Len(log) :
        /\ log[i].dst \in DOMAIN fs
        /\ LastWriter(i) =>
              IF log[i].kind = "dir" THEN fs[log[i].dst].kind = "dir"
              ELSE fs[log[i].dst].kind = "file" /\ fs[log[i].dst].data = log[i].text

\* C14: once an entry has failed Generate has returned the error and the
\* walk is over, what was written before is in place, and nothing is
\* written any more unless the program is run again.
C14_AbortOnFirstError ==
    /\ [](result = "error" => (pc = "done" /\ walk = <<>> /\ WrittenInPlace))
    /\ [][result = "error" => (nruns' > nruns)]_vars

C14_Witness ==
    /\ pc = "done" /\ result = "error" /\ ~cfg.DryRun
    /\ Len(log) >= 1 /\ WrittenInPlace
    /\ \E p, q \in EntriesUnder(fs0, cfg.TemplateDir) \ Sources : p # q

\* s holds no variable name wrapped in the delimiters of a format
NoPlaceholderLeft(s, vs) ==
    \A k \in DOMAIN vs : \A f \in FormatNames : ~Contains(s, Wrap(f, k))

\* C15: when the substituted buffer holds no placeholder of a variable,
\* substituting it again returns it unchanged, whatever the iteration order.
C15_SubstitutionIdempotent ==
    (op = "ReplaceInContentTwice" /\ NoPlaceholderLeft(output, replacer.variables)) =>
        again = output

C15_Witness ==
    /\ op = "ReplaceInContentTwice"
    /\ NoPlaceholderLeft(output, replacer.variables)
    /\ \E k \in DOMAIN replacer.variables :
          /\ Contains(input, Wrap("percent", k))
          /\ replacer.variables[k] # <<>>
          /\ Contains(output, replacer.variables[k])
    /\ output # input
    /\ again = output

\* the lines printed and the entries written by the current run
Handled == stdout \o log

\* the path below the template root
RelOf(src) == SubSeq(src, Len(cfg.TemplateDir) + 2, Len(src))

\* C16: the root is never emitted, every destination is the output root
\* joined with the substituted relative path (on a well-separated path:
\* every placeholder of a variable replaced by its value, in directory and
\* file names alike), and a run that succeeds has handled every entry that
\* was under the template root exactly once.
C16_PathMapping ==
    /\ \A i \in 1..Len(Handled) :
          /\ Handled[i].src # cfg.TemplateDir
          /\ \E order \in KeyOrders(replacer.variables) :
                Handled[i].dst = Join(cfg.OutputDir,
                    ReplaceInPath(RelOf(Handled[i].src), replacer.variables, order))
          /\ WellSeparated(RelOf(Handled[i].src), replacer.variables) =>
                Handled[i].dst = Join(cfg.OutputDir,
                    Expected(Parse(RelOf(Handled[i].src), 1), replacer.variables))
    /\ (pc = "done" /\ result = "ok") =>
          \A p \in EntriesUnder(fs0, cfg.TemplateDir) :
              Cardinality({i \in 1..Len(Handled) : Handled[i].src = p}) = 1

C16_Witness ==
    /\ pc = "done" /\ result = "ok" /\ ~cfg.DryRun
    /\ <<"a">> \in DOMAIN replacer.variables /\ replacer.variables[<<"a">>] = <<"x">>
    /\ \E i, j \in 1..Len(log) :
          /\ log[i].kind = "dir" /\ log[i].src = Under(cfg.TemplateDir, Wrap("braces", <<"a">>))
          /\ log[i].dst = Under(cfg.OutputDir, <<"x">>)
          /\ log[j].kind = "file" /\ Dir(log[j].src) = log[i].src
          /\ log[j].dst = Under(log[i].dst, <<"c">>)
          /\ log[j].dst \in DOMAIN fs

\* the prompts for values, in the order issued
ValuePrompts == SelectSeq(asked, LAMBDA q : q.kind = "value")

\* C18: with a line read for every prompt, PromptForValues prompts once for
\* each key and returns the same keys; an empty line gives the default, or
\* the empty string when the default is empty, and a line that is not empty
\* gives the line without the spaces around it.
C18_Orig ==
    (op = "PromptForValues" /\ \A i \in 1..Len(ValuePrompts) : ~ValuePrompts[i].eof) =>
        /\ values.ok /\ DOMAIN values.vs = DOMAIN found.vs
        /\ \A k \in DOMAIN found.vs :
              Cardinality({i \in 1..Len(ValuePrompts) : ValuePrompts[i].key = k}) = 1
        /\ \A i \in 1..Len(ValuePrompts) :
              LET q == ValuePrompts[i]
              IN  values.vs[q.key] = IF q.line = <<>> THEN q.default ELSE TrimSpace(q.line)

\* v is line without the spaces at its ends
IsTrimOf(v, line) ==
    /\ v = <<>> \/ (Head(v) # Space /\ v[Len(v)] # Space)
    /\ \E i \in 0..Len(line) :
          /\ i + Len(v) <= Len(line)
          /\ SubSeq(line, i + 1, i + Len(v)) = v
          /\ \A j \in (1..i) \cup ((i + Len(v) + 1)..Len(line)) : line[j] = Space

\* C18, with a line read for every prompt: one prompt per key, the same
\* keys returned, a line of spaces or no character gives the default and any
\* other line gives the line without the spaces around it; when standard
\* input ends before, PromptForValues returns an error and no Variable Set.
C18_PromptForValues ==
    op = "PromptForValues" =>
        IF \A i \in 1..Len(ValuePrompts) : ~ValuePrompts[i].eof
        THEN /\ values.ok /\ DOMAIN values.vs = DOMAIN found.vs
             /\ \A k \in DOMAIN found.vs :
                   Cardinality({i \in 1..Len(ValuePrompts) : ValuePrompts[i].key = k}) = 1
             /\ \A i \in 1..Len(ValuePrompts) :
                   LET q == ValuePrompts[i]
                   IN  /\ q.default = found.vs[q.key]
                       /\ IF \A j \in 1..Len(q.line) : q.line[j] = Space
                          THEN values.vs[q.key] = q.default
                          ELSE IsTrimOf(values.vs[q.key], q.line)
        ELSE ~values.ok /\ stdin = <<>>

C18_Witness ==
    /\ op = "PromptForValues" /\ values.ok
    /\ DOMAIN found.vs = {<<"a">>, <<"b">>}
    /\ \E i, j \in 1..Len(ValuePrompts) :
          /\ ValuePrompts[i].line = <<Space>> /\ ValuePrompts[i].default # <<>>
          /\ values.vs[ValuePrompts[i].key] = ValuePrompts[i].default
          /\ ValuePrompts[j].line = <<Space, "x", Space>>
          /\ values.vs[ValuePrompts[j].key] = <<"x">>

\* the names the four patterns find in s
NamesIn(s) == UNION {FindAll(s, f) : f \in FormatNames}

\* C17: the map ExtractVariables returns for a template directory has as
\* keys the names found in the relative path of every entry and in the
\* content of every file without a zero byte among its first 512 bytes, and
\* the empty string as every value.
C17_ExtractVariables ==
    (found.ok /\ IsDir(fs0, cfg.TemplateDir)) =>
        /\ DOMAIN found.vs =
              UNION {NamesIn(RelOf(p)) : p \in EntriesUnder(fs0, cfg.TemplateDir)}
              \cup UNION {NamesIn(fs0[p].data) :
                            p \in {q \in EntriesUnder(fs0, cfg.TemplateDir) :
                                      fs0[q].kind = "file" /\ ~ZeroInFirst512(fs0[q].data)}}
        /\ \A k \in DOMAIN found.vs : found.vs[k] = <<>>

C17_Witness ==
    /\ found.ok /\ IsDir(fs0, cfg.TemplateDir)
    /\ DOMAIN found.vs = {<<"b">>}
    /\ \E p \in EntriesUnder(fs0, cfg.TemplateDir) :
          /\ ZeroInFirst512(fs0[p].data)
          /\ Contains(fs0[p].data, Wrap("braces", <<"a">>))

\* the line is y or yes, in any case, with spaces around it or not
IsYesLine(line) ==
    \E i \in 1..(Len(line) + 1), j \in 0..Len(line) :
        /\ IsTrimOf(SubSeq(line, i, j), line)
        /\ ToLower(SubSeq(line, i, j)) \in {<<"y">>, <<"y", "e", "s">>}

\* a confirmation was asked and answered by a line that is not y or yes
NegativeAnswer ==
    \E i \in 1..Len(asked) :
        asked[i].kind = "confirm" /\ ~asked[i].eof /\ ~IsYesLine(asked[i].line)

PositiveAnswer ==
    \E i \in 1..Len(asked) :
        asked[i].kind = "confirm" /\ ~asked[i].eof /\ IsYesLine(asked[i].line)

\* a confirmation is the last prompt, asked once a value was read for every
\* variable found
ConfirmationAfterValues ==
    \A i \in 1..Len(asked) :
        asked[i].kind = "confirm" =>
            /\ i = Len(asked) /\ values.ok
            /\ \A j \in 1..(i - 1) : asked[j].kind = "value" /\ ~asked[j].eof
            /\ {asked[j].key : j \in 1..(i - 1)} = DOMAIN found.vs

\* after a negative answer Generate was not called, nothing is written and
\* the run has ended without error
CancelledCleanly ==
    NegativeAnswer =>
        /\ nruns = 0 /\ walk = <<>> /\ log = <<>> /\ fs = fs0
        /\ pc = "done" /\ result = "ok"

DocumentedFile ==
    IF "c" \in flags.given THEN flags.configFile
    ELSE IF "stencil.json" \in DOMAIN disk THEN "stencil.json"
    ELSE IF ".stencil.json" \in DOMAIN disk THEN ".stencil.json"
    ELSE IF "stencil.config.json" \in DOMAIN disk THEN "stencil.config.json"
    ELSE ""

\* C20: after loadConfig a directory given with -t or -o is the one used;
\* when the flag is not given the directory the config file names is used,
\* and the built-in default when there is no config file.
C20_ConfigPriority ==
    (op = "loadConfig" /\ result # "error") =>
        /\ "t" \in flags.given => cfg.TemplateDir = flags.templateDir
        /\ "o" \in flags.given => cfg.OutputDir = flags.outputDir
        /\ ("t" \notin flags.given /\ DocumentedFile = "") =>
               cfg.TemplateDir = DefaultConfig.TemplateDir
        /\ ("o" \notin flags.given /\ DocumentedFile = "") =>
               cfg.OutputDir = DefaultConfig.OutputDir
        /\ ("t" \notin flags.given /\ DocumentedFile # ""
               /\ "templateDir" \in DOMAIN disk[DocumentedFile]) =>
               cfg.TemplateDir = disk[DocumentedFile].templateDir
        /\ ("o" \notin flags.given /\ DocumentedFile # ""
               /\ "outputDir" \in DOMAIN disk[DocumentedFile]) =>
               cfg.OutputDir = disk[DocumentedFile].outputDir

(***************************************************************************)
(* Properties of loadConfig                                                *)
(***************************************************************************)
\* the key=value entries of a -v string: an entry lies between two commas
\* (or an end of the string), its key is the text before its first "=" and
\* its value the text after it, both without surrounding white space
GivenPairs(s) ==
    {[at |-> t[1],
      key |-> TrimSpace(SubSeq(s, t[1], t[3] - 1)),
      value |-> TrimSpace(SubSeq(s, t[3] + 1, t[2]))] :
        t \in {u \in (1..Len(s)) \X (1..Len(s)) \X (1..Len(s)) :
                  /\ u[1] <= u[3] /\ u[3] <= u[2]
                  /\ u[1] = 1 \/ s[u[1] - 1] = ","
                  /\ u[2] = Len(s) \/ s[u[2] + 1] = ","
                  /\ \A k \in u[1]..u[2] : s[k] # ","
                  /\ s[u[3]] = "="
                  /\ \A k \in u[1]..(u[3] - 1) : s[k] # "="}}

\* the variables of the config file that was read
FileVariables ==
    IF DocumentedFile # "" /\ "variables" \in DOMAIN disk[DocumentedFile]
    THEN disk[DocumentedFile].variables
    ELSE <<>>

FileFormats ==
    IF DocumentedFile # "" /\ "formats" \in DOMAIN disk[DocumentedFile]
    THEN disk[DocumentedFile].formats
    ELSE <<>>

\* the JSON key of each field of FormatOptions
FormatKeys ==
    {<<"EnableBraces", "enableBraces">>,
     <<"EnableAngleBrackets", "enableAngleBrackets">>,
     <<"EnableUnderscores", "enableUnderscores">>,
     <<"EnablePercent", "enablePercent">>}

\* C22: however the configuration is built, a format is enabled unless the
\* config file explicitly disables it: after loadConfig a format flag is
\* false only if the formats object of the config file sets its key to false.
C22_FormatsDefaultEnabled ==
    (op = "loadConfig" /\ result # "error") =>
        \A fk \in FormatKeys :
            cfg.Formats[fk[1]] = FALSE =>
                (fk[2] \in DOMAIN FileFormats /\ FileFormats[fk[2]] = FALSE)

(***************************************************************************)
(* Empty values                                                            *)
(***************************************************************************)
\* the variables whose value is the empty string
EmptyValued(vs) == {k \in DOMAIN vs : vs[k] = <<>>}

RECURSIVE Kept(_, _)
Kept(toks, vs) ==
    IF toks = <<>> THEN <<>>
    ELSE LET t == Head(toks)
         IN  (IF t.kind = "placeholder"
              THEN IF t.name \in DOMAIN vs THEN <<>> ELSE Wrap(t.f, t.name)
              ELSE t.name) \o Kept(Tail(toks), vs)

Within(d, p) == p = d \/ (Len(p) > Len(d) + 1 /\ SubSeq(p, 1, Len(d) + 1) = d \o Slash)

\* the output tree of disk f: paths, kinds, permission bits and contents
OutputTree(f) == [p \in {q \in DOMAIN f : Within(cfg.OutputDir, q)} |-> f[p]]

\* C24: a real run that follows a successful real run with the same
\* template, Variable Set and output root (the output root outside the
\* template) succeeds and leaves the output tree as the first run left it.
C24_RerunIdempotent ==
    (/\ pc = "done" /\ nruns >= 2
     /\ ~cfg.DryRun /\ ~prevRun.DryRun /\ prevRun.result = "ok"
     /\ ~Within(cfg.TemplateDir, cfg.OutputDir)) =>
        (result = "ok" /\ OutputTree(fs) = OutputTree(fs0))

(***************************************************************************)
(* Interactive mode and the configured variables                           *)
(***************************************************************************)
\* C25: when the values have been collected and SetVariables is about to
\* install them, every prompt for a variable that had a configured value
\* offered that value as its default, and a response of no character or of
\* spaces kept the configured value.
C25_ConfiguredValueIsDefault ==
    (pc = "set" /\ values.ok) =>
        \A i \in 1..Len(ValuePrompts) :
            LET q == ValuePrompts[i]
            IN  q.key \in DOMAIN cfg.Variables =>
                    /\ q.default = cfg.Variables[q.key]
                    /\ TrimSpace(q.line) = <<>> => values.vs[q.key] = cfg.Variables[q.key]

(***************************************************************************)
(* The spans the four patterns match                                       *)
(***************************************************************************)
\* the name inside the span sp of a match of format f
NameOfSpan(s, sp, f) == SubSeq(s, sp[1] + Len(Open(f)), sp[2] - Len(Close(f)))

Disjoint(p, q) == p[2] < q[1] \/ q[2] < p[1]

\* C26 as stated: no character position of the input lies in matches of two
\* different formats.
C26_Orig ==
    Extracted =>
        \A f, g \in FormatNames :
            f # g => \A p \in FindAllIndex(input, f) : \A q \in FindAllIndex(input, g) :
                        Disjoint(p, q)

\* C26: the names extraction returns are those of the matched spans; no
\* span is matched by two different formats; and when no matched name holds
\* a delimiter character, no character position lies in matches of two
\* different formats.
C26_FormatsDisjointOnPlainNames ==
    Extracted =>
        LET spans == [f \in FormatNames |-> FindAllIndex(input, f)]
            pairs == {fg \in FormatNames \X FormatNames : fg[1] # fg[2]}
        IN  /\ extracted = UNION {{NameOfSpan(input, p, f) : p \in spans[f]} : f \in FormatNames}
            /\ \A fg \in pairs : spans[fg[1]] \cap spans[fg[2]] = {}
            /\ (\A n \in extracted : PlainName(n)) =>
                   \A fg \in pairs : \A p \in spans[fg[1]] : \A q \in spans[fg[2]] :
                       Disjoint(p, q)

\* matches of three formats, every name without delimiter characters
C26_Witness ==
    /\ Extracted
    /\ \A n \in extracted : PlainName(n)
    /\ Cardinality({f \in FormatNames : FindAllIndex(input, f) # {}}) >= 3

(***************************************************************************)
(* The entries a run processes and the paths it writes                     *)
(***************************************************************************)
\* C27: a real run processes only entries that were under the template
\* root when it started, none that it created itself, and a real run that
\* has returned without error has processed each of them exactly once, also
\* when the output root lies inside the template root.
C27_OnlyOriginalEntries ==
    ~cfg.DryRun =>
        /\ \A i \in 1..Len(Handled) : Handled[i].src \in EntriesUnder(fs0, cfg.TemplateDir)
        /\ (pc = "done" /\ result = "ok") =>
              \A p \in EntriesUnder(fs0, cfg.TemplateDir) :
                  Cardinality({i \in 1..Len(Handled) : Handled[i].src = p}) = 1

\* the paths of disk f that were not there, or were different, on disk g
Changed(f, g) == {p \in DOMAIN f : p \notin DOMAIN g \/ f[p] # g[p]}

\* C28: every path a run has created or written, and every path at which
\* the disk differs from the disk the run started on, is the output root or
\* lies under it.
C28_WritesInsideOutputRoot ==
    /\ \A i \in 1..Len(log) : Within(cfg.OutputDir, log[i].dst)
    /\ \A p \in Changed(fs, fs0) : Within(cfg.OutputDir, p)

\* what the run had to write at the destination of the file log[i]: the
\* bytes of a binary file, the substituted content of a text file
ContentFor(i) ==
    IF log[i].kind = "binary" THEN {log[i].srcData}
    ELSE {ReplaceInContent(log[i].srcData, replacer.variables, o) :
             o \in KeyOrders(replacer.variables)}

\* C29: after a real run that returned without error and wrote inside the
\* output root only, the destination of every template file is a file that
\* holds that template file's content, substituted for a text file and as
\* it is for a binary file.
C29_EveryFileHasCounterpart ==
    (/\ pc = "done" /\ result = "ok" /\ ~cfg.DryRun
     /\ \A j \in 1..Len(log) : Within(cfg.OutputDir, log[j].dst)) =>
        \A i \in 1..Len(log) :
            log[i].kind # "dir" =>
                /\ log[i].dst \in DOMAIN fs
                /\ fs[log[i].dst].kind = "file"
                /\ fs[log[i].dst].data \in ContentFor(i)

(***************************************************************************)
(* Interactive mode on a template without variables                        *)
(***************************************************************************)
NoVariableFound == found.ok /\ DOMAIN found.vs = {}

====
